---- MODULE Spec2Model ----
(***************************************************************************)
(* Appointment manager back end (paventhan183/dr-appointment).             *)
(*                                                                         *)
(* Two servers are modelled, selected by `variant`:                        *)
(*   "file"  the flat-file server: every handler reads data.json, changes  *)
(*           the array in memory and rewrites the whole file.  The await   *)
(*           points of a handler are separate steps, so handlers of        *)
(*           different requests interleave between read, write, respond.   *)
(*   "db"    server.js: Mongoose collection, login, the bearer-token gate  *)
(*           in front of the CRUD routes, start-up and the keep-alive job. *)
(*           Each handler awaits one collection operation and is one step. *)
(*                                                                         *)
(* `last` is the response sent by the step just taken (what was asked,     *)
(* what was answered), or NoResponse when the step sent none; the          *)
(* properties are stated over it.                                          *)
(***************************************************************************)
EXTENDS Integers, Sequences, FiniteSets

VARIABLES
    variant,      \* which server runs: "file" or "db"
    now,          \* the clock read by Date.now() / new Date() / jwt
    dataFile,     \* file variant: data.json, [exists, text]
    inflight,     \* file variant: handlers suspended at an await
    hist,         \* file variant: what has happened since the last delete-all
    proc,         \* db variant: the process and what it has done
    collection,   \* db variant: the appointments collection, in insertion order
    tokens,       \* db variant: expiry times of the tokens login has issued
    last          \* the response sent by the step just taken

vars == <<variant, now, dataFile, inflight, hist, proc, collection, tokens, last>>

fileVars == <<dataFile, inflight, hist>>
dbVars == <<proc, collection, tokens>>

(***************************************************************************)
(* Bounds of the model.                                                    *)
(***************************************************************************)
MaxNow == 2         \* the clock runs 1..MaxNow
MaxRecs == 2        \* create is not issued once the store holds this many records
MaxInFlight == 2    \* file variant: handlers suspended at the same time

(***************************************************************************)
(* Request bodies.  A JSON object is a function from the field names it    *)
(* carries to their values; an absent field is absent from the domain.     *)
(***************************************************************************)
Full == [name |-> "Jane Doe", date |-> "2024-06-01", time |-> "10:00",
         services |-> <<[description |-> "Cleaning", cost |-> 50]>>]

NoName == [date |-> "2024-06-02", time |-> "09:00"]

BadService == [name |-> "Jane Doe", date |-> "2024-06-01", time |-> "10:00",
               services |-> <<[description |-> "Cleaning"]>>]

Flag == [confirmationSent |-> TRUE]

IdOnly == [id |-> "2"]

EmptyName == [name |-> ""]

\* `{ ...a, ...b }`: the fields of b overwrite those of a
Merge(a, b) ==
    [f \in (DOMAIN a) \cup (DOMAIN b) |-> IF f \in DOMAIN b THEN b[f] ELSE a[f]]

Digit(d) == <<"0", "1", "2", "3", "4", "5", "6", "7", "8", "9">>[d + 1]

\* Number.prototype.toString / String(n) of a non-negative integer
RECURSIVE ToString(_)
ToString(n) == IF n < 10 THEN Digit(n) ELSE ToString(n \div 10) \o Digit(n % 10)

\* no Authorization header; the JavaScript value undefined
NoHeader == [present |-> FALSE, value |-> <<>>]
Undefined == [t |-> "undefined", v |-> ""]

\* a response: what was asked and what was answered
NoResponse ==
    [op |-> "none", status |-> 0, id |-> "", body |-> <<>>, header |-> NoHeader,
     ran |-> FALSE, rid |-> "", known |-> FALSE, wrote |-> FALSE, queried |-> FALSE,
     afterDelete |-> FALSE, raced |-> FALSE, read |-> <<>>, n |-> 0,
     afterDeleteAll |-> FALSE, undisturbed |-> FALSE,
     record |-> <<>>, username |-> Undefined, password |-> Undefined, token |-> <<>>]

Response(fields) == Merge(NoResponse, fields)

(***************************************************************************)
(* The flat-file server.                                                   *)
(***************************************************************************)

\* readData(): the parsed file, or [] when the file does not exist (ENOENT)
readData == IF dataFile.exists THEN dataFile.text ELSE <<>>

\* writeData(data): the file is replaced by the serialised array
writeData(data) == [exists |-> TRUE, text |-> data]

\* `${x}` of a field that may be undefined
Template(a, f) == IF f \in DOMAIN a THEN a[f] ELSE "undefined"

\* new Date(`${a.date}T${a.time}`): the time value, or NaN for an invalid date
DateOf(a) ==
    LET s == Template(a, "date") \o "T" \o Template(a, "time")
    IN  CASE s = "2024-06-01T10:00" -> [nan |-> FALSE, ms |-> 1]
          [] s = "2024-06-02T09:00" -> [nan |-> FALSE, ms |-> 2]
          [] OTHER -> [nan |-> TRUE, ms |-> 0]

\* the comparator of the listing, dateB - dateA; a NaN result orders as 0
compare(a, b) ==
    IF DateOf(a).nan \/ DateOf(b).nan THEN 0 ELSE DateOf(b).ms - DateOf(a).ms

RECURSIVE InsertInto(_, _)
InsertInto(s, x) ==
    IF s = <<>> THEN <<x>>
    ELSE IF compare(s[Len(s)], x) > 0
         THEN Append(InsertInto(SubSeq(s, 1, Len(s) - 1), x), s[Len(s)])
         ELSE Append(s, x)

\* appointments.sort(comparator): a stable insertion sort (what the engine
\* does on short arrays)
RECURSIVE sort(_)
sort(s) == IF s = <<>> THEN <<>> ELSE InsertInto(sort(SubSeq(s, 1, Len(s) - 1)), s[Len(s)])

\* a lookup that falls back to the first record when nothing matches
findIndexOrFirst(appointments, id) ==
    IF \E i \in 1..Len(appointments) : appointments[i].id = id
    THEN CHOOSE i \in 1..Len(appointments) :
            /\ appointments[i].id = id
            /\ \A j \in 1..(i - 1) : appointments[j].id # id
    ELSE IF appointments # <<>> THEN 1 ELSE 0

\* appointments.findIndex(appt => appt.id === id); 0 stands for -1
findIndex(appointments, id) ==
    IF \E i \in 1..Len(appointments) : appointments[i].id = id
    THEN CHOOSE i \in 1..Len(appointments) :
            /\ appointments[i].id = id
            /\ \A j \in 1..(i - 1) : appointments[j].id # id
    ELSE 0

\* a removal of the first match only (findIndex and splice)
filterFirst(appointments, id) ==
    IF \E i \in 1..Len(appointments) : appointments[i].id = id
    THEN LET i == CHOOSE i \in 1..Len(appointments) :
                     /\ appointments[i].id = id
                     /\ \A j \in 1..(i - 1) : appointments[j].id # id
         IN  SubSeq(appointments, 1, i - 1) \o SubSeq(appointments, i + 1, Len(appointments))
    ELSE appointments

\* appointments.filter(appt => appt.id !== id)
filter(appointments, id) == SelectSeq(appointments, LAMBDA appt : appt.id # id)

Request(op, id, body, read, data, record) ==
    [op |-> op, id |-> id, body |-> body, read |-> read, data |-> data,
     record |-> record, pc |-> "write", raced |-> FALSE,
     afterDelete |-> (id # "" /\ hist.deleted = id)]

\* a handler is suspended: is it the only one in flight
Started == [hist EXCEPT !.solo = (inflight = <<>>), !.deleted = ""]

\* GET /api/appointments: read, sort, respond
ListAll ==
    /\ variant = "file"
    /\ last' = Response([op |-> "list", status |-> 200, n |-> Len(sort(readData)),
                         ran |-> TRUE, read |-> readData,
                         afterDeleteAll |-> hist.noCreateSince,
                         undisturbed |-> hist.noCreateSince /\ hist.noWriteSince])
    /\ UNCHANGED <<variant, now, fileVars, dbVars>>

\* POST /api/appointments, up to the await of writeData
StartCreate(body) ==
    /\ variant = "file"
    /\ Len(inflight) < MaxInFlight
    /\ Len(readData) < MaxRecs
    /\ LET appointments == readData
           newAppointment == Merge(body, [id |-> ToString(now)])
       IN  inflight' = Append(inflight,
               Request("create", "", body, appointments,
                       Append(appointments, newAppointment), newAppointment))
    /\ hist' = [Started EXCEPT !.noCreateSince = FALSE]
    /\ last' = NoResponse
    /\ UNCHANGED <<variant, now, dataFile, dbVars>>

\* PUT /api/appointments/:id, up to the 404 or the await of writeData
StartUpdate(id, body) ==
    /\ variant = "file"
    /\ LET appointments == readData
           index == findIndex(appointments, id)
       IN  \/ /\ index = 0
              /\ last' = Response([op |-> "update", id |-> id, status |-> 404,
                                   body |-> body, ran |-> TRUE, queried |-> TRUE,
                                   read |-> appointments,
                                   afterDelete |-> hist.deleted = id])
              /\ UNCHANGED <<inflight, hist>>
           \/ /\ index # 0
              /\ Len(inflight) < MaxInFlight
              /\ LET merged == Merge(appointments[index], body)
                 IN  inflight' = Append(inflight,
                         Request("update", id, body, appointments,
                                 [appointments EXCEPT ![index] = merged], merged))
              /\ hist' = Started
              /\ last' = NoResponse
    /\ UNCHANGED <<variant, now, dataFile, dbVars>>

\* DELETE /api/appointments/:id, up to the 404 or the await of writeData
StartDelete(id) ==
    /\ variant = "file"
    /\ LET appointments == readData
           filteredAppointments == filter(appointments, id)
       IN  \/ /\ Len(appointments) = Len(filteredAppointments)
              /\ last' = Response([op |-> "delete", id |-> id, status |-> 404,
                                   ran |-> TRUE, queried |-> TRUE, read |-> appointments,
                                   afterDelete |-> hist.deleted = id])
              /\ UNCHANGED <<inflight, hist>>
           \/ /\ Len(appointments) # Len(filteredAppointments)
              /\ Len(inflight) < MaxInFlight
              /\ inflight' = Append(inflight,
                     Request("delete", id, <<>>, appointments, filteredAppointments, <<>>))
              /\ hist' = Started
              /\ last' = NoResponse
    /\ UNCHANGED <<variant, now, dataFile, dbVars>>

\* a delete-all that writes back what it read
StartDeleteAllKeeping ==
    /\ variant = "file"
    /\ Len(inflight) < MaxInFlight
    /\ inflight' = Append(inflight, Request("deleteAll", "", <<>>, readData, readData, <<>>))
    /\ hist' = Started
    /\ last' = NoResponse
    /\ UNCHANGED <<variant, now, dataFile, dbVars>>

\* DELETE /api/appointments, up to the await of writeData([])
StartDeleteAll ==
    /\ variant = "file"
    /\ Len(inflight) < MaxInFlight
    /\ inflight' = Append(inflight, Request("deleteAll", "", <<>>, <<>>, <<>>, <<>>))
    /\ hist' = Started
    /\ last' = NoResponse
    /\ UNCHANGED <<variant, now, dataFile, dbVars>>

\* a write that applies a create to the file as it is now, not as it was read
WriteReapplied(i) ==
    /\ variant = "file"
    /\ i \in 1..Len(inflight)
    /\ inflight[i].pc = "write"
    /\ dataFile' = writeData(IF inflight[i].op = "create"
                             THEN Append(readData, inflight[i].record)
                             ELSE inflight[i].data)
    /\ inflight' = [j \in 1..Len(inflight) |->
          IF j = i THEN [inflight[j] EXCEPT !.pc = "respond"]
          ELSE [inflight[j] EXCEPT
                   !.raced = @ \/ (inflight[j].pc = "write" /\ inflight[j].op # "deleteAll")]]
    /\ hist' = [hist EXCEPT !.noWriteSince = (inflight[i].op = "deleteAll")]
    /\ last' = NoResponse
    /\ UNCHANGED <<variant, now, dbVars>>

\* fs.writeFile completes for the handler at position i
Write(i) ==
    /\ variant = "file"
    /\ i \in 1..Len(inflight)
    /\ inflight[i].pc = "write"
    /\ dataFile' = writeData(inflight[i].data)
    /\ inflight' = [j \in 1..Len(inflight) |->
          IF j = i THEN [inflight[j] EXCEPT !.pc = "respond"]
          ELSE [inflight[j] EXCEPT
                   !.raced = @ \/ (inflight[j].pc = "write" /\ inflight[j].op # "deleteAll")]]
    /\ hist' = [hist EXCEPT !.noWriteSince = (inflight[i].op = "deleteAll")]
    /\ last' = NoResponse
    /\ UNCHANGED <<variant, now, dbVars>>

\* the status each handler sends after its write
SuccessStatus(op) ==
    CASE op = "create" -> 201
      [] op = "update" -> 200
      [] OTHER -> 204

\* the handler at position i resumes after the write and responds
Respond(i) ==
    /\ variant = "file"
    /\ i \in 1..Len(inflight)
    /\ inflight[i].pc = "respond"
    /\ LET r == inflight[i]
       IN  /\ inflight' = SubSeq(inflight, 1, i - 1) \o SubSeq(inflight, i + 1, Len(inflight))
           /\ last' = Response([op |-> r.op, id |-> r.id, status |-> SuccessStatus(r.op),
                                body |-> r.body, ran |-> TRUE, read |-> r.read,
                                record |-> r.record,
                                rid |-> IF r.op \in {"create", "update"} THEN r.record.id ELSE "",
                                known |-> \E k \in 1..Len(r.read) : r.read[k].id = r.id,
                                queried |-> r.op \in {"update", "delete"},
                                wrote |-> TRUE, afterDelete |-> r.afterDelete,
                                raced |-> r.raced])
           /\ hist' = [hist EXCEPT
                  !.noCreateSince = IF r.op = "deleteAll" THEN TRUE ELSE @,
                  !.solo = FALSE,
                  !.deleted = IF r.op = "delete" /\ hist.solo THEN r.id ELSE @]
    /\ UNCHANGED <<variant, now, dataFile, dbVars>>

\* time passes
Tick ==
    /\ now < MaxNow
    /\ now' = now + 1
    /\ last' = NoResponse
    /\ UNCHANGED <<variant, fileVars, dbVars>>

(***************************************************************************)
(* server.js: the Mongoose model.                                          *)
(***************************************************************************)
MaxPings == 1       \* failed keep-alive pings that are counted

MaxOids == MaxRecs + 1   \* object ids the database hands out

Later == [name |-> " John ", phone |-> "555", date |-> "2024-06-02", time |-> "09:00"]

\* a database-assigned _id, as the string the routes carry
ObjectId(n) == "oid" \o ToString(n)

\* can Mongoose cast the string to an ObjectId
IsObjectId(id) == \E n \in 1..MaxOids : id = ObjectId(n)

\* the paths of appointmentSchema
SchemaPaths == {"name", "phone", "date", "time", "confirmationSent", "reviewSent",
                "services", "billupdateflag"}

\* String.prototype.trim on the strings of the model
Trim(str) == IF str = " John " THEN "John" ELSE str

\* casting to the schema: unknown paths are dropped, `trim: true` strings trimmed
Cast(body) ==
    [f \in (DOMAIN body) \cap SchemaPaths |->
        IF f \in {"name", "phone"} THEN Trim(body[f]) ELSE body[f]]

Defaults == [confirmationSent |-> FALSE, reviewSent |-> FALSE, billupdateflag |-> FALSE,
             services |-> <<>>]

\* new Appointment(req.body)
Appointment(body, oid) == Merge(Merge(Defaults, Cast(body)), [_id |-> oid])

\* `required: true` on a path the object carries or must carry
Missing(obj, f) == f \notin DOMAIN obj \/ obj[f] = ""

ServicesInvalid(obj) ==
    /\ "services" \in DOMAIN obj
    /\ \E i \in 1..Len(obj.services) :
          \/ "description" \notin DOMAIN obj.services[i]
          \/ "cost" \notin DOMAIN obj.services[i]

\* document validation on save: does it raise a ValidationError
ValidationError(doc) ==
    \/ \E f \in {"name", "date", "time"} : Missing(doc, f)
    \/ ServicesInvalid(doc)

\* update validators (runValidators: true): only the paths being set are checked
UpdateValidationError(update) ==
    \/ \E f \in {"name", "date", "time"} \cap DOMAIN update : Missing(update, f)
    \/ ServicesInvalid(update)

\* the toJSON transform: id = _id.toString(), _id and __v removed
toJSON(doc) ==
    [f \in ((DOMAIN doc) \ {"_id"}) \cup {"id"} |-> IF f = "id" THEN doc._id ELSE doc[f]]

\* position of the document with this _id, 0 when there is none
FindById(docs, id) ==
    IF \E i \in 1..Len(docs) : docs[i]._id = id
    THEN CHOOSE i \in 1..Len(docs) : docs[i]._id = id
    ELSE 0

\* Appointment.findByIdAndUpdate(id, updatedData, {new: true, runValidators: true}):
\* the error raised, the document returned (null: found = FALSE), the collection after
findByIdAndUpdate(docs, id, updatedData) ==
    LET update == Cast(updatedData)
        i == FindById(docs, id)
        none == [error |-> "", found |-> FALSE, doc |-> <<>>, docs |-> docs, queried |-> TRUE]
    IN  IF ~IsObjectId(id) THEN [none EXCEPT !.error = "CastError", !.queried = FALSE]
        ELSE IF UpdateValidationError(update)
             THEN [none EXCEPT !.error = "ValidationError", !.queried = FALSE]
        ELSE IF i = 0 THEN none
        ELSE [none EXCEPT !.found = TRUE, !.doc = Merge(docs[i], update),
                          !.docs = [docs EXCEPT ![i] = Merge(docs[i], update)]]

\* Appointment.findByIdAndDelete(id)
findByIdAndDelete(docs, id) ==
    LET i == FindById(docs, id)
        none == [error |-> "", found |-> FALSE, docs |-> docs, queried |-> TRUE]
    IN  IF ~IsObjectId(id) THEN [none EXCEPT !.error = "CastError", !.queried = FALSE]
        ELSE IF i = 0 THEN none
        ELSE [none EXCEPT !.found = TRUE,
                          !.docs = SubSeq(docs, 1, i - 1) \o SubSeq(docs, i + 1, Len(docs))]

\* the sort key of a date or time string of the model (string order)
Rank(str) ==
    CASE str = "09:00" -> 1
      [] str = "10:00" -> 2
      [] str = "2024-06-01" -> 1
      [] str = "2024-06-02" -> 2
      [] OTHER -> 0

\* is a before b under .sort({ date: -1, time: -1 })
Newer(a, b) ==
    \/ Rank(a.date) > Rank(b.date)
    \/ Rank(a.date) = Rank(b.date) /\ Rank(a.time) > Rank(b.time)

\* Appointment.findOne(query).sort({ date: -1, time: -1 }): 0 when nothing matches
findOneNewest(docs, phone, date) ==
    LET match == {i \in 1..Len(docs) :
                    /\ "phone" \in DOMAIN docs[i] /\ docs[i].phone = phone
                    /\ (date # "" => docs[i].date = date)}
    IN  IF match = {} THEN 0
        ELSE CHOOSE i \in match :
                \A j \in match \ {i} : Newer(docs[i], docs[j]) \/ (~Newer(docs[j], docs[i]) /\ i < j)

RECURSIVE InsertByTime(_, _)
InsertByTime(s, x) ==
    IF s = <<>> THEN <<x>>
    ELSE IF Rank(s[Len(s)].time) > Rank(x.time)
         THEN Append(InsertByTime(SubSeq(s, 1, Len(s) - 1), x), s[Len(s)])
         ELSE Append(s, x)

RECURSIVE SortByTime(_)
SortByTime(s) ==
    IF s = <<>> THEN <<>> ELSE InsertByTime(SortByTime(SubSeq(s, 1, Len(s) - 1)), s[Len(s)])

\* Appointment.find({ date: date }).sort({ time: 'asc' })
findByDate(docs, date) == SortByTime(SelectSeq(docs, LAMBDA d : d.date = date))

\* /^\d{4}-\d{2}-\d{2}$/.test(date) on the strings of the model
IsDateFormat(date) == date \in {"2024-06-01", "2024-06-02"}

\* the ids asked for: what Date.now().toString() can have produced
Ids == {ToString(n) : n \in 1..MaxNow}

(***************************************************************************)
(* server.js: login and the gate in front of the routes registered after   *)
(* it.                                                                     *)
(***************************************************************************)
ExpiresIn == 1      \* expiresIn: '1h'; the clock counts hours

\* JavaScript values of the login body
Str(v) == [t |-> "string", v |-> v]
Falsy(x) == x.t = "undefined" \/ x.v = ""

\* no padding at all
padStartNone(str, targetLength) == str

\* String.prototype.padStart(targetLength, "0")
RECURSIVE padStart(_, _)
padStart(str, targetLength) ==
    IF Len(str) >= targetLength THEN str ELSE padStart("0" \o str, targetLength)

\* new Date(): the clock counts hours and starts at 23:00 on 30 September,
\* server-local time; getMonth() is zero-based
getDate == IF now = 1 THEN 30 ELSE 1
getMonth == IF now = 1 THEN 8 ELSE 9

\* `${day}${month}`
expectedPassword ==
    LET day == padStart(ToString(getDate), 2)
        month == padStart(ToString(getMonth + 1), 2)
    IN  day \o month

\* a header value is a sequence of atoms: words, single spaces, tokens
Word(w) == [k |-> "word", w |-> w]
Space == [k |-> "space"]
Jwt(sig, exp) == [k |-> "jwt", sig |-> sig, exp |-> exp, username |-> "admin"]
Header(value) == [present |-> TRUE, value |-> value]

\* jwt.sign(payload, process.env.JWT_SECRET, { expiresIn: '1h' })
sign == Jwt("JWT_SECRET", now + ExpiresIn)

\* jwt.verify(token, process.env.JWT_SECRET): does it report an error
verifyError(token) ==
    ~ /\ Len(token) = 1
      /\ token[1].k = "jwt"
      /\ token[1].sig = "JWT_SECRET"
      /\ now < token[1].exp

\* String.prototype.split(' ')
RECURSIVE split(_)
split(str) ==
    IF \E i \in 1..Len(str) : str[i] = Space
    THEN LET i == CHOOSE i \in 1..Len(str) :
                     str[i] = Space /\ \A j \in 1..(i - 1) : str[j] # Space
         IN  <<SubSeq(str, 1, i - 1)>> \o split(SubSeq(str, i + 1, Len(str)))
    ELSE <<str>>

\* authHeader && authHeader.split(' ')[1]
TokenOf(authHeader) ==
    IF ~authHeader.present THEN [defined |-> FALSE, str |-> <<>>]
    ELSE IF authHeader.value = <<>> THEN [defined |-> TRUE, str |-> <<>>]
    ELSE LET parts == split(authHeader.value)
         IN  IF Len(parts) >= 2 THEN [defined |-> TRUE, str |-> parts[2]]
             ELSE [defined |-> FALSE, str |-> <<>>]

\* app.use('/api', ...): the status the gate answers with, 0 when it calls next()
Gate(authHeader) ==
    LET token == TokenOf(authHeader)
    IN  IF ~token.defined THEN 401
        ELSE IF verifyError(token.str) THEN 403
        ELSE 0

Listening == variant = "db" /\ proc.listening /\ ~proc.exited

Served == [proc EXCEPT !.served = TRUE]

\* POST /api/auth/login
Login(username, password) ==
    /\ Listening
    /\ LET isUsernameValid == username = Str("admin")
           isPasswordValid == password = Str(expectedPassword)
           status == IF Falsy(username) \/ Falsy(password) THEN 400
                     ELSE IF ~isUsernameValid \/ ~isPasswordValid THEN 401
                     ELSE 200
       IN  /\ tokens' = IF status = 200 THEN tokens \cup {sign.exp} ELSE tokens
           /\ last' = Response([op |-> "login", status |-> status, username |-> username,
                                password |-> password,
                                token |-> IF status = 200 THEN <<sign>> ELSE <<>>])
    /\ proc' = Served
    /\ UNCHANGED <<variant, now, fileVars, collection>>

\* GET /api/keepwake
Keepwake(header) ==
    /\ Listening
    /\ last' = Response([op |-> "keepwake", header |-> header, ran |-> TRUE,
                         status |-> IF collection # <<>> THEN 200 ELSE 404,
                         rid |-> IF collection # <<>> THEN toJSON(collection[1]).id ELSE "",
                         read |-> collection])
    /\ proc' = Served
    /\ UNCHANGED <<variant, now, fileVars, collection, tokens>>

\* GET /api/bill-details/:phone?date=
BillDetails(header, phone, date) ==
    /\ Listening
    /\ LET i == findOneNewest(collection, phone, date)
       IN  last' = Response([op |-> "billDetails", header |-> header, ran |-> TRUE,
                             status |-> IF i = 0 THEN 404 ELSE 200,
                             rid |-> IF i = 0 THEN "" ELSE collection[i]._id,
                             read |-> collection])
    /\ proc' = Served
    /\ UNCHANGED <<variant, now, fileVars, collection, tokens>>

\* the gate answers 401 or 403 itself; the route is never reached
GateRejects(op, header) ==
    /\ Listening
    /\ Gate(header) # 0
    /\ last' = Response([op |-> op, header |-> header, status |-> Gate(header),
                         read |-> collection])
    /\ proc' = Served
    /\ UNCHANGED <<variant, now, fileVars, collection, tokens>>

\* GET /api/appointments: the route is commented out, so past the gate no
\* route matches and the framework answers 404
DbListAll(header) ==
    /\ Listening
    /\ Gate(header) = 0
    /\ last' = Response([op |-> "list", header |-> header, status |-> 404,
                         read |-> collection])
    /\ proc' = Served
    /\ UNCHANGED <<variant, now, fileVars, collection, tokens>>

\* GET /api/appointments/by-date?date=
ByDate(header, date) ==
    /\ Listening
    /\ Gate(header) = 0
    /\ LET status == IF date = "" THEN 400
                     ELSE IF ~IsDateFormat(date) THEN 400
                     ELSE 200
       IN  last' = Response([op |-> "byDate", header |-> header, ran |-> TRUE,
                             status |-> status, read |-> collection,
                             n |-> IF status = 200 THEN Len(findByDate(collection, date)) ELSE 0])
    /\ proc' = Served
    /\ UNCHANGED <<variant, now, fileVars, collection, tokens>>

\* POST /api/appointments
DbCreate(header, body) ==
    /\ Listening
    /\ Gate(header) = 0
    /\ Len(collection) < MaxRecs
    /\ proc.oids < MaxOids
    /\ LET appointment == Appointment(body, ObjectId(proc.oids + 1))
           status == IF ValidationError(appointment) THEN 400 ELSE 201
       IN  /\ collection' = IF status = 201 THEN Append(collection, appointment) ELSE collection
           /\ proc' = [Served EXCEPT !.oids = IF status = 201 THEN @ + 1 ELSE @]
           /\ last' = Response([op |-> "create", header |-> header, body |-> body,
                                ran |-> TRUE, status |-> status, read |-> collection,
                                wrote |-> status = 201,
                                rid |-> IF status = 201 THEN toJSON(appointment).id ELSE ""])
    /\ hist' = [hist EXCEPT !.deleted = ""]
    /\ UNCHANGED <<variant, now, dataFile, inflight, tokens>>

\* PUT /api/appointments/:id
DbUpdate(header, id, updatedData) ==
    /\ Listening
    /\ Gate(header) = 0
    /\ LET r == findByIdAndUpdate(collection, id, updatedData)
           status == IF r.error # "" THEN 400
                     ELSE IF ~r.found THEN 404
                     ELSE 200
       IN  /\ collection' = r.docs
           /\ hist' = [hist EXCEPT !.deleted = IF status = 200 THEN "" ELSE @]
           /\ last' = Response([op |-> "update", header |-> header, id |-> id,
                                body |-> updatedData, ran |-> TRUE, status |-> status,
                                read |-> collection,
                                known |-> \E i \in 1..Len(collection) : collection[i]._id = id,
                                queried |-> r.queried,
                                wrote |-> status = 200,
                                rid |-> IF status = 200 THEN toJSON(r.doc).id ELSE "",
                                afterDelete |-> hist.deleted = id])
    /\ proc' = Served
    /\ UNCHANGED <<variant, now, dataFile, inflight, tokens>>

\* DELETE /api/appointments/:id
DbDelete(header, id) ==
    /\ Listening
    /\ Gate(header) = 0
    /\ LET r == findByIdAndDelete(collection, id)
           status == IF r.error # "" THEN 400
                     ELSE IF ~r.found THEN 404
                     ELSE 204
       IN  /\ collection' = r.docs
           /\ hist' = [hist EXCEPT !.deleted = IF status = 204 THEN id ELSE @]
           /\ last' = Response([op |-> "delete", header |-> header, id |-> id,
                                ran |-> TRUE, status |-> status, read |-> collection,
                                known |-> \E i \in 1..Len(collection) : collection[i]._id = id,
                                queried |-> r.queried,
                                wrote |-> status = 204,
                                afterDelete |-> hist.deleted = id])
    /\ proc' = Served
    /\ UNCHANGED <<variant, now, dataFile, inflight, tokens>>

\* DELETE /api/appointments
DbDeleteAll(header) ==
    /\ Listening
    /\ Gate(header) = 0
    /\ collection' = <<>>
    /\ hist' = [hist EXCEPT !.deleted = ""]
    /\ last' = Response([op |-> "deleteAll", header |-> header, ran |-> TRUE,
                         status |-> 204, read |-> collection, wrote |-> TRUE])
    /\ proc' = Served
    /\ UNCHANGED <<variant, now, dataFile, inflight, tokens>>

(***************************************************************************)
(* server.js: start-up and the keep-alive job.                             *)
(***************************************************************************)

\* mongoose.connect(...) resolves: .then() listens and schedules the job
Connected ==
    /\ variant = "db"
    /\ proc.state = "connecting"
    /\ proc' = [proc EXCEPT !.state = "connected", !.listening = TRUE, !.cron = TRUE]
    /\ last' = NoResponse
    /\ UNCHANGED <<variant, now, fileVars, collection, tokens>>

\* mongoose.connect(...) rejects: .catch() logs and calls process.exit(1)
ConnectFailed ==
    /\ variant = "db"
    /\ proc.state = "connecting"
    /\ proc' = [proc EXCEPT !.state = "failed", !.exited = TRUE]
    /\ last' = NoResponse
    /\ UNCHANGED <<variant, now, fileVars, collection, tokens>>

\* a job whose rejected ping is not caught and ends the process
CronTickFatal(pong) ==
    /\ variant = "db"
    /\ proc.cron
    /\ ~proc.exited
    /\ proc' = [proc EXCEPT !.pings = IF pong THEN "ok" ELSE "failed",
                            !.failedPings = IF pong \/ @ = MaxPings THEN @ ELSE @ + 1,
                            !.exited = ~pong, !.listening = pong, !.cron = pong]
    /\ last' = NoResponse
    /\ UNCHANGED <<variant, now, fileVars, collection, tokens>>

\* a tick of cron.schedule('*/2 * * * *', ...): the ping resolves or rejects;
\* a rejection is caught and logged
CronTick(pong) ==
    /\ variant = "db"
    /\ proc.cron
    /\ ~proc.exited
    /\ proc' = [proc EXCEPT !.pings = IF pong THEN "ok" ELSE "failed",
                            !.failedPings = IF pong \/ @ = MaxPings THEN @ ELSE @ + 1]
    /\ last' = NoResponse
    /\ UNCHANGED <<variant, now, fileVars, collection, tokens>>

\* the Authorization headers sent: the tokens are those login has issued
\* (some expired by now) and one signed with another key
Presentable == {Jwt("JWT_SECRET", e) : e \in tokens} \cup {Jwt("forged", now + ExpiresIn)}

Headers ==
    {NoHeader, Header(<<>>), Header(<<Word("Bearer")>>)}
    \cup {Header(<<Word("Bearer"), Space, t>>) : t \in Presentable}
    \cup {Header(<<Word("Basic"), Space, t>>) : t \in Presentable}
    \cup {Header(<<Word("Bearer"), Space, Space, t>>) : t \in Presentable}

\* the headers of a client that logged in
BearerHeaders == {Header(<<Word("Bearer"), Space, Jwt("JWT_SECRET", e)>>) : e \in tokens}

ProtectedOps == {"list", "byDate", "create", "update", "delete", "deleteAll"}

DbIds == {ObjectId(n) : n \in 1..MaxOids} \cup {"not-an-id"}

Usernames == {Undefined, Str("admin"), Str("guest")}

Passwords == {Undefined, Str(""), Str("3009"), Str("0110"), Str("110"), Str("0109")}

StartNext ==
    \/ Connected
    \/ ConnectFailed
    \/ \E pong \in BOOLEAN : CronTick(pong)

\* the routes behind the gate, asked with every header
GateNext ==
    \/ \E username \in Usernames, password \in Passwords : Login(username, password)
    \/ Keepwake(NoHeader)
    \/ \E phone \in {"555", "000"}, date \in {"", "2024-06-02"} : BillDetails(NoHeader, phone, date)
    \/ \E op \in ProtectedOps, header \in Headers : GateRejects(op, header)
    \/ \E header \in Headers : DbListAll(header)
    \/ \E header \in Headers : ByDate(header, "2024-06-02")
    \/ \E header \in Headers : DbCreate(header, Later)
    \/ \E header \in Headers : DbUpdate(header, ObjectId(1), Flag)
    \/ \E header \in Headers : DbDelete(header, ObjectId(1))
    \/ \E header \in Headers : DbDeleteAll(header)

\* the routes asked by a client that logged in, with every id and body
CrudNext ==
    \/ Login(Str("admin"), Str(expectedPassword))
    \/ \E op \in ProtectedOps : GateRejects(op, NoHeader)
    \/ \E header \in BearerHeaders, date \in {"", "2024-06-01", "13-2024-01"} :
          ByDate(header, date)
    \/ \E header \in BearerHeaders, body \in {Full, Later, NoName, BadService} :
          DbCreate(header, body)
    \/ \E header \in BearerHeaders, id \in DbIds, body \in {Flag, EmptyName} :
          DbUpdate(header, id, body)
    \/ \E header \in BearerHeaders, id \in DbIds : DbDelete(header, id)
    \/ \E header \in BearerHeaders : DbDeleteAll(header)

FileNext ==
    \/ ListAll
    \/ \E body \in {Full, NoName} : StartCreate(body)
    \/ \E id \in Ids, body \in {IdOnly} : StartUpdate(id, body)
    \/ \E id \in Ids : StartDelete(id)
    \/ StartDeleteAll
    \/ \E i \in 1..MaxInFlight : Write(i)
    \/ \E i \in 1..MaxInFlight : Respond(i)

InitCommon ==
    /\ now = 1
    /\ dataFile = [exists |-> FALSE, text |-> <<>>]
    /\ inflight = <<>>
    /\ hist = [noCreateSince |-> FALSE, noWriteSince |-> FALSE, solo |-> FALSE,
               deleted |-> ""]
    /\ proc = [state |-> "connecting", listening |-> FALSE, cron |-> FALSE,
               exited |-> FALSE, served |-> FALSE, pings |-> "none", failedPings |-> 0,
               oids |-> 0]
    /\ collection = <<>>
    /\ tokens = {}
    /\ last = NoResponse

\* the flat-file server: app.listen() is called at once
FileInit == variant = "file" /\ InitCommon

\* server.js: the process has called mongoose.connect()
DbInit == variant = "db" /\ InitCommon

Init == FileInit \/ DbInit

Next == FileNext \/ Connected \/ CrudNext \/ Tick

\* both servers, the client of server.js logged in
Spec == Init /\ [][Next]_vars

\* server.js: start-up, the keep-alive job, login and the gate
DbSpec == DbInit /\ [][StartNext \/ GateNext \/ Tick]_vars

(***************************************************************************)
(* Properties.                                                             *)
(***************************************************************************)

\* the stored collection of the running server, and a record's id in it
Store == IF variant = "file" THEN readData ELSE collection
IdOf(rec) == IF variant = "file" THEN rec.id ELSE rec._id

Success == {200, 201, 204}

\* the header is `Bearer <token>` with a token login signed that has not expired
BearerValid(h) ==
    /\ h.present
    /\ Len(h.value) = 3
    /\ h.value[1] = Word("Bearer")
    /\ h.value[2] = Space
    /\ h.value[3].k = "jwt"
    /\ h.value[3].sig = "JWT_SECRET"
    /\ now < h.value[3].exp

\* the header is `Bearer <token>` with a forged or expired token
BearerInvalid(h) ==
    /\ h.present
    /\ Len(h.value) = 3
    /\ h.value[1] = Word("Bearer")
    /\ h.value[2] = Space
    /\ h.value[3].k = "jwt"
    /\ ~BearerValid(h)

\* C1: on a route behind the gate the handler runs only for a header
\* `Bearer <token>` with a valid token; no Authorization header is answered
\* 401, an invalid or expired token 403, and the store is left unchanged.
C1_HandlerOnlyForBearer ==
    (variant = "db" /\ last.op \in ProtectedOps) =>
        /\ last.ran => BearerValid(last.header)
        /\ ~last.header.present => (last.status = 401 /\ collection = last.read)
        /\ BearerInvalid(last.header) => (last.status = 403 /\ collection = last.read)

\* C2: in the flat-file server no two stored records have the same id.
C2_IdsUnique ==
    variant = "file" =>
        \A i, j \in 1..Len(readData) : i # j => readData[i].id # readData[j].id

\* C3: a successful update returns the record under the id it was asked for.
C3_IdImmutable ==
    (last.op = "update" /\ last.status = 200) => last.rid = last.id

\* the collection a suspended handler computed from the file as it read it
Computed(r) ==
    CASE r.op = "create" -> Append(r.read, Merge(r.body, [id |-> r.record.id]))
      [] r.op = "update" ->
            [k \in 1..Len(r.read) |->
                IF r.read[k].id = r.id /\ \A j \in 1..(k - 1) : r.read[j].id # r.id
                THEN Merge(r.read[k], r.body) ELSE r.read[k]]
      [] r.op = "delete" -> SelectSeq(r.read, LAMBDA appt : appt.id # r.id)
      [] OTHER -> <<>>

\* C4: a handler whose file was rewritten by another request between its own
\* read and its own write still writes, the file is then exactly the
\* collection it computed from what it had read, and every handler that
\* wrote responds with success.
C4_LastWriterWins ==
    /\ [][\A i \in 1..Len(inflight) :
            ( /\ Len(inflight') = Len(inflight)
              /\ inflight[i].pc = "write"
              /\ inflight'[i].pc = "respond"
              /\ inflight[i].raced )
            => dataFile'.text = Computed(inflight[i])]_vars
    /\ [](variant = "file" /\ last.wrote => last.status \in Success)

\* two creates read the same file; the first wrote and responded 201, the
\* second wrote after it, and the first one's record is not in the file
C4_Witness ==
    /\ last.op = "create" /\ last.status = 201
    /\ \E i \in 1..Len(inflight) :
          /\ inflight[i].op = "create"
          /\ inflight[i].pc = "respond"
          /\ inflight[i].raced
          /\ inflight[i].read = last.read
          /\ dataFile.text = inflight[i].data
    /\ \A k \in 1..Len(dataFile.text) : dataFile.text[k] # last.record

\* C5 as stated: a listing after a delete-all responded, with no create issued
\* since that response, is empty; delete-all always answers 204.
C5_EmptyAfterDeleteAll ==
    variant = "file" =>
        /\ (last.op = "list" /\ last.afterDeleteAll) => last.n = 0
        /\ last.op = "deleteAll" => last.status = 204

\* C5: a listing after a delete-all responded, with no create issued since
\* that response and no create, update or delete having written the file
\* after the delete-all wrote it, is empty; delete-all always answers 204.
C5_EmptyAfterUndisturbedDeleteAll ==
    variant = "file" =>
        /\ (last.op = "list" /\ last.undisturbed) => last.n = 0
        /\ last.op = "deleteAll" => last.status = 204

C5_Witness == variant = "file" /\ last.op = "list" /\ last.undisturbed /\ last.n = 0

\* C6 as stated: update with an id that matches no record answers 404 and
\* leaves the store as it was.
C6_UnknownIdIs404 ==
    (last.op = "update" /\ last.ran /\ ~last.known) =>
        (last.status = 404 /\ Store = last.read)

\* C6: update with an id that matches no record leaves the store as it was;
\* it answers 404, except that server.js answers 400 when the id is not a
\* well-formed object id or the body fails the schema's validation.
C6_UnknownIdNeverWrites ==
    (last.op = "update" /\ last.ran /\ ~last.known) =>
        /\ Store = last.read
        /\ ~last.wrote
        /\ variant = "file" => last.status = 404
        /\ variant = "db" =>
              last.status = IF ~IsObjectId(last.id) \/ UpdateValidationError(Cast(last.body))
                            THEN 400 ELSE 404

C6_Witness ==
    /\ last.op = "update" /\ last.ran /\ ~last.known
    /\ last.status = 404
    /\ Store # <<>>

\* the payload carries name, date and time, and every service a description
\* and a cost
HasRequired(body) ==
    /\ \A f \in {"name", "date", "time"} : f \in DOMAIN body /\ body[f] # ""
    /\ "services" \in DOMAIN body =>
          \A i \in 1..Len(body.services) :
              {"description", "cost"} \subseteq DOMAIN body.services[i]

\* C7: create answers 201 and stores the record exactly when the payload has
\* the required fields, and otherwise answers 400 and stores nothing.
C7_CreateValidates ==
    (last.op = "create" /\ last.ran) =>
        IF HasRequired(last.body) THEN last.status = 201 /\ last.wrote
        ELSE last.status = 400 /\ ~last.wrote

\* the server-local day and month as DDMM
DDMM ==
    LET d == getDate
        m == getMonth + 1
    IN  Digit(d \div 10) \o Digit(d % 10) \o Digit(m \div 10) \o Digit(m % 10)

\* C8 as stated: login answers 200 with a token exactly for admin and DDMM;
\* admin with any other password, empty or missing included, gets 401.
C8_LoginExactly ==
    last.op = "login" =>
        /\ last.status = 200 <=> (last.username = Str("admin") /\ last.password = Str(DDMM))
        /\ (last.username = Str("admin") /\ last.password # Str(DDMM)) =>
              (last.status = 401 /\ last.token = <<>>)

\* C8: login answers 200 with a token exactly for admin and DDMM; admin with
\* any other non-empty password gets 401, admin with an empty or missing
\* password gets 400, and neither is issued a token.
C8_LoginExactlyNonEmpty ==
    last.op = "login" =>
        /\ last.status = 200 <=> (last.username = Str("admin") /\ last.password = Str(DDMM))
        /\ last.status = 200 =>
              last.token = <<Jwt("JWT_SECRET", now + ExpiresIn)>>
        /\ (last.username = Str("admin") /\ last.password # Str(DDMM)) =>
              /\ last.status = IF Falsy(last.password) THEN 400 ELSE 401
              /\ last.token = <<>>

C8_Witness ==
    /\ last.op = "login" /\ last.status = 200
    /\ last.password = Str("0110")
    /\ last.token # <<>>

C10_StartUp ==
    /\ []((proc.listening \/ proc.cron \/ proc.served) => proc.state = "connected")
    /\ [](proc.exited => (proc.state = "failed" /\ ~proc.listening /\ ~proc.served))
    /\ [][(proc.listening /\ ~proc.exited) =>
              (proc'.listening /\ ~proc'.exited /\ proc'.cron)]_vars

\* a ping failed, a later one succeeded, and the server has just answered
C10_Witness ==
    /\ proc.failedPings >= 1
    /\ proc.pings = "ok"
    /\ proc.listening
    /\ last.op = "keepwake"

====
